---- MODULE Spec2Model ----
(***************************************************************************)
(* Model of the minefield engine of src/src/lib.rs: the Spot state machine *)
(* (Spot::step, Spot::flag, Spot::is_resolved) and the Minefield grid      *)
(* operations (new, with_mines, place_mine, neighbors_coords, step,        *)
(* auto_step, toggle_flag, is_cleared).                                    *)
(***************************************************************************)
EXTENDS Integers, Sequences, FiniteSets

(* ---------------------------------------------------------------------- *)
(* Bounds of the exploration                                               *)
(* ---------------------------------------------------------------------- *)
\* largest width and height asked of Minefield::new
MaxWidth == 3
MaxHeight == 2
\* largest mine count requested from with_mines
MaxMines == 2
\* largest number of direct place_mine calls (the unit tests' way of mining)
MaxPlace == 2
\* largest number of step / auto_step / toggle_flag / is_cleared calls
MaxOps == 4
\* largest number of such calls when mines may also be placed during play
MaxOpsPlace == 2
\* largest width and height of the grids neighbors_coords is applied on
MaxSide == 5

\* u16::MAX, the ceiling of saturating_add on a coordinate
U16Max == 65535
\* 2^16: the modulus of the `as u16` casts.  The `as u32` casts of with_mines
\* take an index or a count that is at most width * height <= 65535 * 65535,
\* which is below 2^32: they never truncate and are left out.
U16Mod == 65536

VARIABLES
    field,            \* Minefield.field : (x, y) -> Spot
    mines,            \* Minefield.mines
    width,            \* Minefield.width
    height,           \* Minefield.height
    pc,               \* "new" | "with_mines" | "play" : position in the lifecycle
    spots_remaining,  \* with_mines: the pool of indices not drawn yet
    todo,             \* with_mines: iterations of the placing loop still to run
    call,             \* the last call made: [op, x, y] (or [op, ...args])
    ret,              \* what the last call returned ("panic": an assertion failed)
    before,           \* the Minefield (all four fields) when the last call started
    drawn,            \* with_mines: the indices drawn so far, in order
    nplace,           \* number of direct place_mine calls made
    nops              \* number of play calls made

vars == <<field, mines, width, height, pc, spots_remaining, todo, call, ret,
          before, drawn, nplace, nops>>

(* ---------------------------------------------------------------------- *)
(* SpotState                                                               *)
(* ---------------------------------------------------------------------- *)
HiddenEmpty(n)   == [state |-> "HiddenEmpty",   neighboring_mines |-> n]
FlaggedEmpty(n)  == [state |-> "FlaggedEmpty",  neighboring_mines |-> n]
RevealedEmpty(n) == [state |-> "RevealedEmpty", neighboring_mines |-> n]
HiddenMine       == [state |-> "HiddenMine"]
FlaggedMine      == [state |-> "FlaggedMine"]
ExplodedMine     == [state |-> "ExplodedMine"]

\* Spot::default
Spot_default == HiddenEmpty(0)

(* ---------------------------------------------------------------------- *)
(* Spot                                                                    *)
(* ---------------------------------------------------------------------- *)
\* step that also reveals a flagged empty spot
Spot_step_through_flag(spot) ==
    CASE spot.state = "HiddenEmpty" ->
            [spot |-> RevealedEmpty(spot.neighboring_mines), result |-> "Phew"]
      [] spot.state = "FlaggedEmpty" ->
            [spot |-> RevealedEmpty(spot.neighboring_mines), result |-> "Phew"]
      [] spot.state = "HiddenMine" ->
            [spot |-> ExplodedMine, result |-> "Boom"]
      [] OTHER ->
            [spot |-> spot, result |-> "Invalid"]

\* Spot::step revealing every hidden empty spot with a count of 0
Spot_step_forgets_count(spot) ==
    IF spot.state = "HiddenEmpty" THEN [spot |-> RevealedEmpty(0), result |-> "Phew"]
    ELSE IF spot.state = "HiddenMine" THEN [spot |-> ExplodedMine, result |-> "Boom"]
    ELSE [spot |-> spot, result |-> "Invalid"]

\* Spot::step
Spot_step(spot) ==
    CASE spot.state = "HiddenEmpty" ->
            [spot |-> RevealedEmpty(spot.neighboring_mines), result |-> "Phew"]
      [] spot.state = "HiddenMine" ->
            [spot |-> ExplodedMine, result |-> "Boom"]
      [] OTHER ->
            [spot |-> spot, result |-> "Invalid"]

\* flag that gives back a cell without its count when the flag comes off
Spot_flag_forgets_count(spot) ==
    CASE spot.state = "HiddenEmpty" ->
            [spot |-> FlaggedEmpty(spot.neighboring_mines), result |-> "Added"]
      [] spot.state = "HiddenMine" ->
            [spot |-> FlaggedMine, result |-> "Added"]
      [] spot.state = "FlaggedEmpty" ->
            [spot |-> HiddenEmpty(0), result |-> "Removed"]
      [] spot.state = "FlaggedMine" ->
            [spot |-> HiddenMine, result |-> "Removed"]
      [] OTHER ->
            [spot |-> spot, result |-> "None"]

\* flag that also flags a revealed cell
Spot_flag_on_revealed(spot) ==
    CASE spot.state = "HiddenEmpty" ->
            [spot |-> FlaggedEmpty(spot.neighboring_mines), result |-> "Added"]
      [] spot.state = "RevealedEmpty" ->
            [spot |-> FlaggedEmpty(spot.neighboring_mines), result |-> "Added"]
      [] spot.state = "HiddenMine" ->
            [spot |-> FlaggedMine, result |-> "Added"]
      [] spot.state = "FlaggedEmpty" ->
            [spot |-> HiddenEmpty(spot.neighboring_mines), result |-> "Removed"]
      [] spot.state = "FlaggedMine" ->
            [spot |-> HiddenMine, result |-> "Removed"]
      [] OTHER ->
            [spot |-> spot, result |-> "None"]

\* flag that only ever adds: on a flagged cell it does nothing
Spot_flag_never_removes(spot) ==
    CASE spot.state = "HiddenEmpty" ->
            [spot |-> FlaggedEmpty(spot.neighboring_mines), result |-> "Added"]
      [] spot.state = "HiddenMine" ->
            [spot |-> FlaggedMine, result |-> "Added"]
      [] OTHER ->
            [spot |-> spot, result |-> "None"]

\* Spot::flag
Spot_flag(spot) ==
    CASE spot.state = "HiddenEmpty" ->
            [spot |-> FlaggedEmpty(spot.neighboring_mines), result |-> "Added"]
      [] spot.state = "HiddenMine" ->
            [spot |-> FlaggedMine, result |-> "Added"]
      [] spot.state = "FlaggedEmpty" ->
            [spot |-> HiddenEmpty(spot.neighboring_mines), result |-> "Removed"]
      [] spot.state = "FlaggedMine" ->
            [spot |-> HiddenMine, result |-> "Removed"]
      [] OTHER ->
            [spot |-> spot, result |-> "None"]

\* is_resolved that takes an exploded mine for a settled spot
Spot_is_resolved_exploded(spot) ==
    spot.state \in {"FlaggedMine", "RevealedEmpty", "ExplodedMine"}

\* is_resolved that takes any flag for a correct one
Spot_is_resolved_any_flag(spot) ==
    spot.state \in {"FlaggedMine", "FlaggedEmpty", "RevealedEmpty"}

\* Spot::is_resolved
Spot_is_resolved(spot) ==
    spot.state \in {"FlaggedMine", "RevealedEmpty"}

(* ---------------------------------------------------------------------- *)
(* Minefield: construction                                                 *)
(* ---------------------------------------------------------------------- *)
\* new with inclusive ranges (`0..=width`, `0..=height`): one column and one
\* row too many
Minefield_new_inclusive(w, h) ==
    LET ww == IF w = 0 THEN 1 ELSE w
        hh == IF h = 0 THEN 1 ELSE h
    IN  [field  |-> [c \in (0 .. ww) \X (0 .. hh) |-> Spot_default],
         mines  |-> 0,
         width  |-> ww,
         height |-> hh]

\* Minefield::new
Minefield_new(w, h) ==
    LET ww == IF w = 0 THEN 1 ELSE w
        hh == IF h = 0 THEN 1 ELSE h
    IN  [field  |-> [c \in (0 .. ww - 1) \X (0 .. hh - 1) |-> Spot_default],
         mines  |-> 0,
         width  |-> ww,
         height |-> hh]

(* ---------------------------------------------------------------------- *)
(* Minefield: neighbors                                                    *)
(* ---------------------------------------------------------------------- *)
\* u16::saturating_sub(1)
saturating_sub(x) == IF x = 0 THEN 0 ELSE x - 1

\* u16::saturating_add(1)
saturating_add(x) == IF x = U16Max THEN U16Max ELSE x + 1

\* neighbors_coords without the `not same as self` test of the filter
neighbors_coords_with_self(x, y) ==
    LET min_x == saturating_sub(x)
        max_x == saturating_add(x)
        min_y == saturating_sub(y)
        max_y == saturating_add(y)
        ny    == max_y - min_y + 1
        nx    == max_x - min_x + 1
        all   == [k \in 1 .. nx * ny |->
                    <<min_x + ((k - 1) \div ny), min_y + ((k - 1) % ny)>>]
        keep(c) == c[1] < width /\ c[2] < height
    IN  SelectSeq(all, keep)

\* neighbors_coords with the two ranges swapped: y ascending in the outer
\* range, x ascending in the inner one
neighbors_coords_y_major(x, y) ==
    LET min_x == saturating_sub(x)
        max_x == saturating_add(x)
        min_y == saturating_sub(y)
        max_y == saturating_add(y)
        ny    == max_y - min_y + 1
        nx    == max_x - min_x + 1
        all   == [k \in 1 .. nx * ny |->
                    <<min_x + ((k - 1) % nx), min_y + ((k - 1) \div nx)>>]
        keep(c) == /\ c[1] < width
                   /\ c[2] < height
                   /\ ~(c[1] = x /\ c[2] = y)
    IN  SelectSeq(all, keep)

\* Minefield::neighbors_coords: the coordinates in iteration order
\* (x ascending in the outer range, y ascending in the inner one)
neighbors_coords(x, y) ==
    LET min_x == saturating_sub(x)
        max_x == saturating_add(x)
        min_y == saturating_sub(y)
        max_y == saturating_add(y)
        ny    == max_y - min_y + 1
        nx    == max_x - min_x + 1
        all   == [k \in 1 .. nx * ny |->
                    <<min_x + ((k - 1) \div ny), min_y + ((k - 1) % ny)>>]
        keep(c) == /\ c[1] < width
                   /\ c[2] < height
                   /\ ~(c[1] = x /\ c[2] = y)
    IN  SelectSeq(all, keep)

(* ---------------------------------------------------------------------- *)
(* Minefield: mine placement                                               *)
(* ---------------------------------------------------------------------- *)
\* the neighbor loop ending one neighbor early
RECURSIVE place_mine_neighbors_skips_last(_, _, _)
place_mine_neighbors_skips_last(f, ns, i) ==
    IF i >= Len(ns) THEN f
    ELSE LET spot == f[ns[i]]
         IN  IF spot.state \in {"HiddenEmpty", "FlaggedEmpty", "RevealedEmpty"}
             THEN place_mine_neighbors_skips_last(
                     [f EXCEPT ![ns[i]] =
                         [spot EXCEPT !.neighboring_mines = spot.neighboring_mines + 1]],
                     ns, i + 1)
             ELSE place_mine_neighbors_skips_last(f, ns, i + 1)

\* the neighbor loop counting a new mine on hidden neighbors only
RECURSIVE place_mine_neighbors_hidden_only(_, _, _)
place_mine_neighbors_hidden_only(f, ns, i) ==
    IF i > Len(ns) THEN f
    ELSE LET spot == f[ns[i]]
         IN  IF spot.state = "HiddenEmpty"
             THEN place_mine_neighbors_hidden_only(
                     [f EXCEPT ![ns[i]] =
                         [spot EXCEPT !.neighboring_mines = spot.neighboring_mines + 1]],
                     ns, i + 1)
             ELSE place_mine_neighbors_hidden_only(f, ns, i + 1)

\* the neighbor loop of Minefield::place_mine, from the i-th neighbor on
RECURSIVE place_mine_neighbors(_, _, _)
place_mine_neighbors(f, ns, i) ==
    IF i > Len(ns) THEN f
    ELSE LET spot == f[ns[i]]
         IN  IF spot.state \in {"HiddenEmpty", "FlaggedEmpty", "RevealedEmpty"}
             THEN place_mine_neighbors(
                     [f EXCEPT ![ns[i]] =
                         [spot EXCEPT !.neighboring_mines = spot.neighboring_mines + 1]],
                     ns, i + 1)
             ELSE place_mine_neighbors(f, ns, i + 1)

\* place_mine without the `Only place a mine in an empty field` match: a cell
\* that already holds a mine is mined again and its neighbors counted again
place_mine_unguarded(f, x, y) ==
    IF ~(x < width) \/ ~(y < height)
    THEN [field |-> f, result |-> "panic"]
    ELSE [field  |-> place_mine_neighbors(
                         [f EXCEPT ![<<x, y>>] = HiddenMine],
                         neighbors_coords(x, y), 1),
          result |-> "unit"]

\* Minefield::place_mine
place_mine(f, x, y) ==
    IF ~(x < width) \/ ~(y < height)
    THEN [field |-> f, result |-> "panic"]
    ELSE IF <<x, y>> \in DOMAIN f
              /\ f[<<x, y>>].state \in {"HiddenEmpty", "FlaggedEmpty", "RevealedEmpty"}
         THEN [field  |-> place_mine_neighbors(
                              [f EXCEPT ![<<x, y>>] = HiddenMine],
                              neighbors_coords(x, y), 1),
               result |-> "unit"]
         ELSE [field |-> f, result |-> "unit"]

\* a removal that drops the last element and leaves the chosen one in the pool
swap_remove_drops_last(v, i) ==
    SubSeq(v, 1, Len(v) - 1)

\* Vec::swap_remove(i) with a 0-based i: the last element takes the place of the
\* removed one
swap_remove(v, i) ==
    IF i = Len(v) - 1
    THEN SubSeq(v, 1, Len(v) - 1)
    ELSE [k \in 1 .. Len(v) - 1 |-> IF k = i + 1 THEN v[Len(v)] ELSE v[k]]

(* ---------------------------------------------------------------------- *)
(* Minefield: step and its flood reveal                                    *)
(* ---------------------------------------------------------------------- *)
\* the flood loop without the `if neighboring_mines == 0` test: a numbered
\* spot carries the flood on
RECURSIVE flood_neighbors_through_numbers(_, _, _, _)
flood_neighbors_through_numbers(f, spots_to_visit, ns, i) ==
    IF i > Len(ns) THEN [field |-> f, spots_to_visit |-> spots_to_visit, ok |-> TRUE]
    ELSE LET spot == f[ns[i]]
         IN  IF spot.state = "HiddenEmpty"
             THEN LET r == Spot_step(spot)
                      f1 == [f EXCEPT ![ns[i]] = r.spot]
                  IN  IF r.result # "Phew"
                      THEN [field |-> f1, spots_to_visit |-> spots_to_visit, ok |-> FALSE]
                      ELSE flood_neighbors_through_numbers(
                               f1, Append(spots_to_visit, ns[i]), ns, i + 1)
             ELSE flood_neighbors_through_numbers(f, spots_to_visit, ns, i + 1)

\* the flood loop pushing a spot with no neighboring mines twice
RECURSIVE flood_neighbors_push_twice(_, _, _, _)
flood_neighbors_push_twice(f, spots_to_visit, ns, i) ==
    IF i > Len(ns) THEN [field |-> f, spots_to_visit |-> spots_to_visit, ok |-> TRUE]
    ELSE LET spot == f[ns[i]]
         IN  IF spot.state = "HiddenEmpty"
             THEN LET r == Spot_step(spot)
                      f1 == [f EXCEPT ![ns[i]] = r.spot]
                  IN  IF r.result # "Phew"
                      THEN [field |-> f1, spots_to_visit |-> spots_to_visit, ok |-> FALSE]
                      ELSE IF spot.neighboring_mines = 0
                           THEN flood_neighbors_push_twice(
                                    f1, Append(Append(spots_to_visit, ns[i]), ns[i]),
                                    ns, i + 1)
                           ELSE flood_neighbors_push_twice(f1, spots_to_visit, ns, i + 1)
             ELSE flood_neighbors_push_twice(f, spots_to_visit, ns, i + 1)

\* the `for n_coords in self.neighbors_coords(xx, yy)` loop of Minefield::step,
\* from the i-th neighbor on; ok is FALSE once the assert_eq! has failed
RECURSIVE flood_neighbors(_, _, _, _)
flood_neighbors(f, spots_to_visit, ns, i) ==
    IF i > Len(ns) THEN [field |-> f, spots_to_visit |-> spots_to_visit, ok |-> TRUE]
    ELSE LET spot == f[ns[i]]
         IN  IF spot.state = "HiddenEmpty"
             THEN LET r == Spot_step(spot)
                      f1 == [f EXCEPT ![ns[i]] = r.spot]
                  IN  IF r.result # "Phew"
                      THEN [field |-> f1, spots_to_visit |-> spots_to_visit, ok |-> FALSE]
                      ELSE IF spot.neighboring_mines = 0
                           THEN flood_neighbors(f1, Append(spots_to_visit, ns[i]), ns, i + 1)
                           ELSE flood_neighbors(f1, spots_to_visit, ns, i + 1)
             ELSE flood_neighbors(f, spots_to_visit, ns, i + 1)

\* the `while let Some((xx, yy)) = spots_to_visit.pop()` loop of Minefield::step.
\* Beside the field and the fate of the assert_eq!, the result records the run
\* of the loop: iterations is the number of pops, pushed the coordinates pushed
\* by the loop in order, stepped how many times the loop changed each spot
RECURSIVE flood_reveal(_, _)
flood_reveal(f, spots_to_visit) ==
    IF spots_to_visit = <<>>
    THEN [field |-> f, ok |-> TRUE, iterations |-> 0, pushed |-> <<>>,
          stepped |-> [c \in DOMAIN f |-> 0]]
    ELSE LET top  == spots_to_visit[Len(spots_to_visit)]
             rest == SubSeq(spots_to_visit, 1, Len(spots_to_visit) - 1)
             r    == flood_neighbors(f, rest, neighbors_coords(top[1], top[2]), 1)
             new  == SubSeq(r.spots_to_visit, Len(rest) + 1, Len(r.spots_to_visit))
             here == [c \in DOMAIN f |-> IF r.field[c] # f[c] THEN 1 ELSE 0]
         IN  IF r.ok
             THEN LET tail == flood_reveal(r.field, r.spots_to_visit)
                  IN  [field      |-> tail.field,
                       ok         |-> tail.ok,
                       iterations |-> 1 + tail.iterations,
                       pushed     |-> new \o tail.pushed,
                       stepped    |-> [c \in DOMAIN f |-> here[c] + tail.stepped[c]]]
             ELSE [field |-> r.field, ok |-> FALSE, iterations |-> 1,
                   pushed |-> new, stepped |-> here]

\* step that floods from the spot whenever the spot's own step was taken, an
\* exploded mine included
step_flood_after_boom(f, x, y) ==
    IF <<x, y>> \in DOMAIN f
    THEN LET r  == Spot_step(f[<<x, y>>])
             f1 == [f EXCEPT ![<<x, y>>] = r.spot]
         IN  IF f1[<<x, y>>] = RevealedEmpty(0) \/ r.result = "Boom"
             THEN LET fl == flood_reveal(f1, <<<<x, y>>>>)
                  IN  [field  |-> fl.field,
                       result |-> IF fl.ok THEN r.result ELSE "panic"]
             ELSE [field |-> f1, result |-> r.result]
    ELSE [field |-> f, result |-> "Invalid"]

\* step that floods from any revealed empty spot, whatever its count
step_flood_any_count(f, x, y) ==
    IF <<x, y>> \in DOMAIN f
    THEN LET r  == Spot_step(f[<<x, y>>])
             f1 == [f EXCEPT ![<<x, y>>] = r.spot]
         IN  IF f1[<<x, y>>].state = "RevealedEmpty"
             THEN LET fl == flood_reveal(f1, <<<<x, y>>>>)
                  IN  [field  |-> fl.field,
                       result |-> IF fl.ok THEN r.result ELSE "panic"]
             ELSE [field |-> f1, result |-> r.result]
    ELSE [field |-> f, result |-> "Invalid"]

\* Minefield::step
step(f, x, y) ==
    IF <<x, y>> \in DOMAIN f
    THEN LET r  == Spot_step(f[<<x, y>>])
             f1 == [f EXCEPT ![<<x, y>>] = r.spot]
         IN  IF f1[<<x, y>>] = RevealedEmpty(0)
             THEN LET fl == flood_reveal(f1, <<<<x, y>>>>)
                  IN  [field  |-> fl.field,
                       result |-> IF fl.ok THEN r.result ELSE "panic"]
             ELSE [field |-> f1, result |-> r.result]
    ELSE [field |-> f, result |-> "Invalid"]

(* ---------------------------------------------------------------------- *)
(* Minefield: auto_step, toggle_flag, is_cleared                           *)
(* ---------------------------------------------------------------------- *)
\* the auto_step loop without the eager return: a Boom is dropped, the loop goes
\* on and ends in Phew
RECURSIVE auto_step_neighbors_no_eager(_, _, _)
auto_step_neighbors_no_eager(f, ns, i) ==
    IF i > Len(ns) THEN [field |-> f, result |-> "Phew"]
    ELSE LET r == step(f, ns[i][1], ns[i][2])
         IN  IF r.result = "panic"
             THEN [field |-> r.field, result |-> r.result]
             ELSE auto_step_neighbors_no_eager(r.field, ns, i + 1)

\* the `for (nx, ny) in self.neighbors_coords(x, y)` loop of Minefield::auto_step,
\* from the i-th neighbor on
RECURSIVE auto_step_neighbors(_, _, _)
auto_step_neighbors(f, ns, i) ==
    IF i > Len(ns) THEN [field |-> f, result |-> "Phew"]
    ELSE LET r == step(f, ns[i][1], ns[i][2])
         IN  IF r.result \in {"Boom", "panic"}
             THEN [field |-> r.field, result |-> r.result]
             ELSE auto_step_neighbors(r.field, ns, i + 1)

\* the flag count of Minefield::auto_step (`.count() as u8`)
placed_flags(f, x, y) ==
    LET ns == neighbors_coords(x, y)
    IN  Len(SelectSeq(ns, LAMBDA c : f[c].state \in {"FlaggedEmpty", "FlaggedMine"})) % 256

\* auto_step that goes ahead as soon as there are at least as many flags as
\* neighboring mines (`>=` for `==`)
auto_step_enough_flags(f, x, y) ==
    IF <<x, y>> \in DOMAIN f
    THEN IF f[<<x, y>>].state = "RevealedEmpty"
         THEN IF placed_flags(f, x, y) >= f[<<x, y>>].neighboring_mines
              THEN auto_step_neighbors(f, neighbors_coords(x, y), 1)
              ELSE [field |-> f, result |-> "Invalid"]
         ELSE [field |-> f, result |-> "Invalid"]
    ELSE [field |-> f, result |-> "Invalid"]

\* Minefield::auto_step
auto_step(f, x, y) ==
    IF <<x, y>> \in DOMAIN f
    THEN IF f[<<x, y>>].state = "RevealedEmpty"
         THEN IF placed_flags(f, x, y) = f[<<x, y>>].neighboring_mines
              THEN auto_step_neighbors(f, neighbors_coords(x, y), 1)
              ELSE [field |-> f, result |-> "Invalid"]
         ELSE [field |-> f, result |-> "Invalid"]
    ELSE [field |-> f, result |-> "Invalid"]

\* toggle_flag on a dense array indexed modulo the grid: a coordinate past an
\* edge wraps around to a cell
toggle_flag_wrapped(f, x, y) ==
    LET c == <<x % width, y % height>>
        r == Spot_flag(f[c])
    IN  [field |-> [f EXCEPT ![c] = r.spot], result |-> r.result]

\* Minefield::toggle_flag
toggle_flag(f, x, y) ==
    IF <<x, y>> \in DOMAIN f
    THEN LET r == Spot_flag(f[<<x, y>>])
         IN  [field |-> [f EXCEPT ![<<x, y>>] = r.spot], result |-> r.result]
    ELSE [field |-> f, result |-> "None"]

\* Minefield::is_cleared
is_cleared(f) ==
    ~ \E c \in DOMAIN f : ~ Spot_is_resolved(f[c])

(* ---------------------------------------------------------------------- *)
(* The state machine                                                       *)
(* ---------------------------------------------------------------------- *)
\* the coordinates a caller passes: every cell of the grid, and three outside
\* it (just past the right edge, just past the bottom edge, the far corner
\* of the u16 range)
Cells == (0 .. width - 1) \X (0 .. height - 1)
OutOfBounds == {<<width, 0>>, <<0, height>>, <<U16Max, U16Max>>}
Coords == Cells \cup OutOfBounds

\* the Minefield value: the four fields of the struct
Self == [field |-> field, mines |-> mines, width |-> width, height |-> height]

\* let minefield = Minefield::new(w, h)
Init ==
    \E w \in 0 .. MaxWidth, h \in 0 .. MaxHeight :
        LET m == Minefield_new(w, h)
        IN  /\ field = m.field
            /\ mines = m.mines
            /\ width = m.width
            /\ height = m.height
            /\ pc = "new"
            /\ spots_remaining = <<>>
            /\ todo = 0
            /\ call = [op |-> "new", x |-> w, y |-> h]
            /\ ret = "unit"
            /\ before = m
            /\ drawn = <<>>
            /\ nplace = 0
            /\ nops = 0

\* minefield.place_mine(x, y), called directly on a field under construction
PlaceMine(x, y) ==
    /\ pc = "new"
    /\ nplace < MaxPlace
    /\ LET r == place_mine(field, x, y)
       IN  /\ field' = r.field
           /\ ret' = r.result
           /\ pc' = IF r.result = "panic" THEN "panic" ELSE pc
    /\ before' = Self
    /\ call' = [op |-> "place_mine", x |-> x, y |-> y]
    /\ nplace' = nplace + 1
    /\ UNCHANGED <<mines, width, height, spots_remaining, todo, drawn, nops>>

\* with_mines without the limit on the number of mines (line 52)
WithMines_unlimited(count) ==
    /\ pc = "new"
    /\ nplace = 0
    /\ mines' = count
    /\ spots_remaining' = [k \in 1 .. width * height |-> k - 1]
    /\ todo' = count
    /\ pc' = "with_mines"
    /\ call' = [op |-> "with_mines", x |-> count, y |-> 0]
    /\ ret' = "pending"
    /\ before' = Self
    /\ drawn' = <<>>
    /\ UNCHANGED <<field, width, height, nplace, nops>>

\* minefield.with_mines(count), up to the placing loop (lines 47-65)
WithMines(count) ==
    /\ pc = "new"
    /\ nplace = 0
    /\ LET spot_count == width * height
           m == IF count <= spot_count THEN count ELSE spot_count
       IN  /\ mines' = m
           /\ spots_remaining' = [k \in 1 .. spot_count |-> k - 1]
           /\ todo' = m
    /\ pc' = "with_mines"
    /\ call' = [op |-> "with_mines", x |-> count, y |-> 0]
    /\ ret' = "pending"
    /\ before' = Self
    /\ drawn' = <<>>
    /\ UNCHANGED <<field, width, height, nplace, nops>>

\* one iteration of the placing loop of with_mines (lines 68-74); index_rm is
\* the random draw
Draw ==
    /\ pc = "with_mines"
    /\ todo > 0
    /\ IF Len(spots_remaining) = 0
       THEN \* gen_range panics on an empty range
            /\ pc' = "panic"
            /\ ret' = "panic"
            /\ UNCHANGED <<field, spots_remaining, drawn>>
       ELSE \E index_rm \in 0 .. Len(spots_remaining) - 1 :
               LET index == spots_remaining[index_rm + 1]
                   x == (index % width) % U16Mod
                   y == (index \div width) % U16Mod
                   r == place_mine(field, x, y)
               IN  /\ spots_remaining' = swap_remove(spots_remaining, index_rm)
                   /\ drawn' = Append(drawn, index)
                   /\ field' = r.field
                   /\ ret' = IF r.result = "panic" THEN "panic" ELSE ret
                   /\ pc' = IF r.result = "panic" THEN "panic" ELSE pc
    /\ todo' = todo - 1
    /\ UNCHANGED <<mines, width, height, call, before, nplace, nops>>

\* the end of with_mines: the loop is over and the field is returned (line 76)
WithMinesReturn ==
    /\ pc = "with_mines"
    /\ todo = 0
    /\ pc' = "play"
    /\ ret' = "unit"
    /\ spots_remaining' = <<>>
    /\ UNCHANGED <<field, mines, width, height, todo, call, before, drawn, nplace, nops>>

\* a call of the command surface is possible once the field is built
CanPlay ==
    /\ pc \in {"new", "play"}
    /\ nops < MaxOps

\* what every play call does besides its own effect
Played(op, x, y) ==
    /\ call' = [op |-> op, x |-> x, y |-> y]
    /\ before' = Self
    /\ nops' = nops + 1
    /\ drawn' = <<>>
    /\ UNCHANGED <<mines, width, height, spots_remaining, todo, nplace>>

\* minefield.step(x, y)
Step(x, y) ==
    /\ CanPlay
    /\ LET r == step(field, x, y)
       IN  /\ field' = r.field
           /\ ret' = r.result
           /\ pc' = IF r.result = "panic" THEN "panic" ELSE "play"
    /\ Played("step", x, y)

\* minefield.auto_step(x, y)
AutoStep(x, y) ==
    /\ CanPlay
    /\ LET r == auto_step(field, x, y)
       IN  /\ field' = r.field
           /\ ret' = r.result
           /\ pc' = IF r.result = "panic" THEN "panic" ELSE "play"
    /\ Played("auto_step", x, y)

\* minefield.toggle_flag(x, y)
ToggleFlag(x, y) ==
    /\ CanPlay
    /\ LET r == toggle_flag(field, x, y)
       IN  /\ field' = r.field
           /\ ret' = r.result
           /\ pc' = IF r.result = "panic" THEN "panic" ELSE "play"
    /\ Played("toggle_flag", x, y)

\* minefield.is_cleared()
IsCleared ==
    /\ CanPlay
    /\ field' = field
    /\ ret' = is_cleared(field)
    /\ pc' = "play"
    /\ Played("is_cleared", 0, 0)

Next ==
    \/ \E c \in Cells : PlaceMine(c[1], c[2])
    \/ \E count \in 0 .. MaxMines : WithMines(count)
    \/ Draw
    \/ WithMinesReturn
    \/ \E c \in Coords : Step(c[1], c[2])
    \/ \E c \in Coords : AutoStep(c[1], c[2])
    \/ \E c \in Coords : ToggleFlag(c[1], c[2])
    \/ IsCleared

Spec == Init /\ [][Next]_vars

\* minefield.place_mine(x, y) on a field already in play: nothing in place_mine
\* asks for a fresh field, and with_mines, which calls it, takes any Minefield
PlaceMineInPlay(x, y) ==
    /\ pc = "play"
    /\ nplace < MaxPlace
    /\ LET r == place_mine(field, x, y)
       IN  /\ field' = r.field
           /\ ret' = r.result
           /\ pc' = IF r.result = "panic" THEN "panic" ELSE pc
    /\ before' = Self
    /\ call' = [op |-> "place_mine", x |-> x, y |-> y]
    /\ nplace' = nplace + 1
    /\ UNCHANGED <<mines, width, height, spots_remaining, todo, drawn, nops>>

\* the state machine with mines placed at any time, before or during play
NextPlace ==
    \/ \E c \in Cells : PlaceMine(c[1], c[2])
    \/ \E c \in Cells : PlaceMineInPlay(c[1], c[2])
    \/ \E count \in 0 .. MaxMines : WithMines(count)
    \/ Draw
    \/ WithMinesReturn
    \/ \E c \in Coords : Step(c[1], c[2]) /\ nops' <= MaxOpsPlace
    \/ \E c \in Coords : AutoStep(c[1], c[2]) /\ nops' <= MaxOpsPlace
    \/ \E c \in Coords : ToggleFlag(c[1], c[2]) /\ nops' <= MaxOpsPlace
    \/ IsCleared /\ nops' <= MaxOpsPlace

SpecPlace == Init /\ [][NextPlace]_vars

\* let minefield = Minefield::new(w, h), on the grids neighbors_coords is
\* applied on
InitGrid ==
    \E w \in 0 .. MaxSide, h \in 0 .. MaxSide :
        LET m == Minefield_new(w, h)
        IN  /\ field = m.field
            /\ mines = m.mines
            /\ width = m.width
            /\ height = m.height
            /\ pc = "new"
            /\ spots_remaining = <<>>
            /\ todo = 0
            /\ call = [op |-> "new", x |-> w, y |-> h]
            /\ ret = "unit"
            /\ before = m
            /\ drawn = <<>>
            /\ nplace = 0
            /\ nops = 0

\* self.neighbors_coords(x, y), as place_mine, step and auto_step call it: on a
\* cell of the grid. ret is the sequence the iterator yields
NeighborsCoords(x, y) ==
    /\ pc = "new"
    /\ ret' = neighbors_coords(x, y)
    /\ call' = [op |-> "neighbors_coords", x |-> x, y |-> y]
    /\ before' = Self
    /\ UNCHANGED <<field, mines, width, height, pc, spots_remaining, todo, drawn,
                   nplace, nops>>

\* neighbors_coords applied on every cell of every grid
NextNeighbors == \E c \in Cells : NeighborsCoords(c[1], c[2])

SpecNeighbors == InitGrid /\ [][NextNeighbors]_vars

(* ---------------------------------------------------------------------- *)
(* Vocabulary of the properties                                            *)
(* ---------------------------------------------------------------------- *)
EmptyStates == {"HiddenEmpty", "FlaggedEmpty", "RevealedEmpty"}
MineStates  == {"HiddenMine", "FlaggedMine", "ExplodedMine"}
FlagStates  == {"FlaggedEmpty", "FlaggedMine"}

Abs(n) == IF n < 0 THEN -n ELSE n

\* the in-bounds cells adjacent to c in the grid of f, by distance
Adjacent(f, c) ==
    {d \in DOMAIN f : d # c /\ Abs(d[1] - c[1]) <= 1 /\ Abs(d[2] - c[2]) <= 1}

\* the argument of the last call, and whether it names a cell of the grid
Target == <<call.x, call.y>>
InBounds == call.x < before.width /\ call.y < before.height

\* the last call was op, on a cell of the grid
CalledOn(op) == call.op = op /\ InBounds

(* ---------------------------------------------------------------------- *)
(* C1                                                                      *)
(* ---------------------------------------------------------------------- *)
\* C1: in every state (while mines are being placed on a fresh field, and after
\* any sequence of step, toggle_flag and auto_step calls), every cell in an
\* Empty-family state carries a neighboring_mines between 0 and 8 that equals
\* the number of its in-bounds adjacent cells holding a mine.
C1_NeighborCounts ==
    \A c \in DOMAIN field :
        field[c].state \in EmptyStates =>
            /\ field[c].neighboring_mines \in 0 .. 8
            /\ field[c].neighboring_mines =
                   Cardinality({d \in Adjacent(field, c) : field[d].state \in MineStates})

\* C1 witness: after play on a mined field, a revealed cell shows 2 and a mine
\* has exploded or been flagged
C1_Witness ==
    /\ nops >= 2
    /\ \E c \in DOMAIN field : field[c] = RevealedEmpty(2)
    /\ \E c \in DOMAIN field : field[c].state \in {"FlaggedMine", "ExplodedMine"}

(* ---------------------------------------------------------------------- *)
(* C2                                                                      *)
(* ---------------------------------------------------------------------- *)
\* the least set containing S and every HiddenEmpty neighbor (in f) of its
\* zero-count members
RECURSIVE RevealClosure(_, _)
RevealClosure(f, S) ==
    LET more == {d \in DOMAIN f :
                    /\ f[d].state = "HiddenEmpty"
                    /\ \E c \in S : /\ f[c].neighboring_mines = 0
                                    /\ d \in Adjacent(f, c)}
    IN  IF more \subseteq S THEN S ELSE RevealClosure(f, S \cup more)

\* f with exactly the cells of R revealed, each keeping its own count
RevealedIn(f, R) ==
    [c \in DOMAIN f |-> IF c \in R THEN RevealedEmpty(f[c].neighboring_mines) ELSE f[c]]

\* C2: step(x,y) on a HiddenEmpty cell with neighboring_mines = 0 returns Phew
\* and reveals exactly the least set R that contains (x,y) and every HiddenEmpty
\* neighbor of a zero-count member of R; each cell of R keeps its count and
\* every cell outside R is unchanged.
C2_FloodReveal ==
    (CalledOn("step") /\ before.field[Target] = HiddenEmpty(0)) =>
        /\ ret = "Phew"
        /\ field = RevealedIn(before.field, RevealClosure(before.field, {Target}))

\* C2 witness: a flood that revealed a zero-count cell other than the target and
\* a numbered cell, while a hidden empty cell stayed out of its reach
C2_Witness ==
    /\ CalledOn("step")
    /\ before.field[Target] = HiddenEmpty(0)
    /\ ret = "Phew"
    /\ \E c \in DOMAIN field :
          c # Target /\ before.field[c] = HiddenEmpty(0) /\ field[c] = RevealedEmpty(0)
    /\ \E c \in DOMAIN field :
          /\ before.field[c].state = "HiddenEmpty"
          /\ field[c].state = "RevealedEmpty"
          /\ field[c].neighboring_mines > 0
    /\ \E c \in DOMAIN field : field[c].state = "HiddenEmpty"

(* ---------------------------------------------------------------------- *)
(* C3                                                                      *)
(* ---------------------------------------------------------------------- *)
\* C3: is_cleared() is true iff every cell is RevealedEmpty or FlaggedMine, false
\* whenever some cell is HiddenEmpty, HiddenMine, FlaggedEmpty or ExplodedMine,
\* in every reachable state, and a call of it leaves the field as it was.
C3_IsCleared ==
    /\ is_cleared(field) <=>
          \A c \in DOMAIN field : field[c].state \in {"RevealedEmpty", "FlaggedMine"}
    /\ (\E c \in DOMAIN field :
           field[c].state \in {"HiddenEmpty", "HiddenMine", "FlaggedEmpty", "ExplodedMine"})
          => ~ is_cleared(field)
    /\ call.op = "is_cleared" =>
          /\ Self = before
          /\ ret = (\A c \in DOMAIN field :
                       field[c].state \in {"RevealedEmpty", "FlaggedMine"})

\* C3 witness: is_cleared answered true on a field of several cells, one of
\* them a flagged mine
C3_Witness ==
    /\ call.op = "is_cleared"
    /\ ret = TRUE
    /\ Cardinality(DOMAIN field) > 1
    /\ \E c \in DOMAIN field : field[c] = FlaggedMine

(* ---------------------------------------------------------------------- *)
(* C4                                                                      *)
(* ---------------------------------------------------------------------- *)
\* C4: step(x,y) on a HiddenMine returns Boom, makes that cell ExplodedMine and
\* leaves every other cell unchanged.
C4_StepOnMine ==
    (CalledOn("step") /\ before.field[Target] = HiddenMine) =>
        /\ ret = "Boom"
        /\ field = [before.field EXCEPT ![Target] = ExplodedMine]

\* C4 witness: a mine exploded under a step while a neighbor of it was, and
\* stays, hidden and empty
C4_Witness ==
    /\ CalledOn("step")
    /\ before.field[Target] = HiddenMine
    /\ field[Target] = ExplodedMine
    /\ \E d \in Adjacent(field, Target) : field[d].state = "HiddenEmpty"

(* ---------------------------------------------------------------------- *)
(* C5                                                                      *)
(* ---------------------------------------------------------------------- *)
\* C5: step(x,y) on a HiddenEmpty cell with neighboring_mines = n > 0 returns
\* Phew, makes that cell RevealedEmpty{n} and leaves every other cell unchanged.
C5_StepOnNumbered ==
    (/\ CalledOn("step")
     /\ before.field[Target].state = "HiddenEmpty"
     /\ before.field[Target].neighboring_mines > 0) =>
        /\ ret = "Phew"
        /\ field = [before.field EXCEPT
                       ![Target] = RevealedEmpty(before.field[Target].neighboring_mines)]

\* C5 witness: a numbered cell revealed by a step, next to a hidden empty cell
\* that stays hidden
C5_Witness ==
    /\ CalledOn("step")
    /\ before.field[Target].state = "HiddenEmpty"
    /\ before.field[Target].neighboring_mines > 0
    /\ field[Target].state = "RevealedEmpty"
    /\ \E d \in Adjacent(field, Target) : field[d].state = "HiddenEmpty"

(* ---------------------------------------------------------------------- *)
(* C6                                                                      *)
(* ---------------------------------------------------------------------- *)
\* C6: step(x,y) on an in-bounds cell that is FlaggedEmpty, FlaggedMine,
\* RevealedEmpty (with any neighboring_mines, 0 included) or ExplodedMine returns
\* Invalid and leaves every cell of the field unchanged.
C6_StepOnSettled ==
    (/\ CalledOn("step")
     /\ before.field[Target].state \in
            {"FlaggedEmpty", "FlaggedMine", "RevealedEmpty", "ExplodedMine"}) =>
        /\ ret = "Invalid"
        /\ field = before.field

(* ---------------------------------------------------------------------- *)
(* C7                                                                      *)
(* ---------------------------------------------------------------------- *)
\* C7: for a coordinate with x >= width or y >= height, step and auto_step
\* return Invalid and toggle_flag returns None, none of them fails, and the
\* field, width, height and mines are unchanged.
C7_OutOfBounds ==
    (/\ call.op \in {"step", "auto_step", "toggle_flag"}
     /\ (call.x >= before.width \/ call.y >= before.height)) =>
        /\ ret = (IF call.op = "toggle_flag" THEN "None" ELSE "Invalid")
        /\ Self = before

\* C7 witness: a flag toggled just past the right edge (y is a valid row) of a
\* mined field on which play has started
C7_Witness ==
    /\ call.op = "toggle_flag"
    /\ call.x = before.width
    /\ call.y < before.height
    /\ ret = "None"
    /\ nops >= 2
    /\ \E c \in DOMAIN field : field[c].state \in MineStates

(* ---------------------------------------------------------------------- *)
(* C8                                                                      *)
(* ---------------------------------------------------------------------- *)
\* the number of neighbors of c that carry a flag in f
FlaggedAround(f, c) ==
    Cardinality({d \in Adjacent(f, c) : f[d].state \in FlagStates})

\* C8: auto_step(x,y) returns Invalid and leaves the whole field unchanged
\* whenever the cell is not RevealedEmpty, or is RevealedEmpty{n} with a number
\* of flagged (FlaggedEmpty or FlaggedMine) neighbors other than n.
C8_AutoStepInvalid ==
    (/\ CalledOn("auto_step")
     /\ \/ before.field[Target].state # "RevealedEmpty"
        \/ FlaggedAround(before.field, Target) # before.field[Target].neighboring_mines) =>
        /\ ret = "Invalid"
        /\ Self = before

\* C8 witness: auto_step on a revealed cell with more flags around it than its
\* count, and a hidden empty neighbor that it did not reveal
C8_Witness ==
    /\ CalledOn("auto_step")
    /\ before.field[Target].state = "RevealedEmpty"
    /\ FlaggedAround(before.field, Target) > before.field[Target].neighboring_mines
    /\ ret = "Invalid"
    /\ \E d \in Adjacent(field, Target) : field[d].state = "HiddenEmpty"

(* ---------------------------------------------------------------------- *)
(* C9                                                                      *)
(* ---------------------------------------------------------------------- *)
\* C9: auto_step(x,y) on a RevealedEmpty{n} cell with exactly n flagged neighbors
\* returns Boom iff some neighbor is HiddenMine when it is called, and Phew
\* otherwise; never Invalid.
C9_AutoStepResult ==
    (/\ CalledOn("auto_step")
     /\ before.field[Target].state = "RevealedEmpty"
     /\ FlaggedAround(before.field, Target) = before.field[Target].neighboring_mines) =>
        /\ ret \in {"Boom", "Phew"}
        /\ ret = "Boom" <=>
              \E d \in Adjacent(before.field, Target) : before.field[d] = HiddenMine

\* C9 witness: auto_step on a numbered cell with as many flags around it as its
\* count returned Phew and revealed a neighbor
C9_Witness ==
    /\ CalledOn("auto_step")
    /\ before.field[Target].state = "RevealedEmpty"
    /\ before.field[Target].neighboring_mines > 0
    /\ FlaggedAround(before.field, Target) = before.field[Target].neighboring_mines
    /\ ret = "Phew"
    /\ \E d \in Adjacent(field, Target) :
          before.field[d].state = "HiddenEmpty" /\ field[d].state = "RevealedEmpty"

(* ---------------------------------------------------------------------- *)
(* C10                                                                     *)
(* ---------------------------------------------------------------------- *)
\* (x, y) comes before (x', y'): x ascending, then y ascending
Precedes(a, b) == a[1] < b[1] \/ (a[1] = b[1] /\ a[2] < b[2])

\* the cells of S in that order
InOrder(S) ==
    [i \in 1 .. Cardinality(S) |->
        CHOOSE e \in S : Cardinality({d \in S : Precedes(d, e)}) = i - 1]

\* f after step on each of the first k cells of ns, in turn
RECURSIVE StepEach(_, _, _)
StepEach(f, ns, k) ==
    IF k = 0 THEN f
    ELSE LET g == StepEach(f, ns, k - 1) IN step(g, ns[k][1], ns[k][2]).field

\* C10: when auto_step(x,y) returns Boom, exactly one cell became ExplodedMine
\* during the call, the first HiddenMine neighbor in the order x ascending then y
\* ascending; no neighbor after it is stepped on (the field is the one left by
\* the steps on the neighbors up to it, and any other HiddenMine neighbor stays
\* HiddenMine); every cell revealed by the steps before the explosion stays
\* revealed.
C10_AutoStepBoom ==
    (call.op = "auto_step" /\ ret = "Boom") =>
        LET ns == InOrder(Adjacent(before.field, Target))
            hidden_mines == {i \in 1 .. Len(ns) : before.field[ns[i]] = HiddenMine}
        IN  /\ hidden_mines # {}
            /\ LET k == CHOOSE i \in hidden_mines : \A j \in hidden_mines : i <= j
                   earlier == StepEach(before.field, ns, k - 1)
               IN  /\ {c \in DOMAIN field :
                          field[c] = ExplodedMine /\ before.field[c] # ExplodedMine}
                        = {ns[k]}
                   /\ \A i \in hidden_mines \ {k} : field[ns[i]] = HiddenMine
                   /\ field = StepEach(before.field, ns, k)
                   /\ \A c \in DOMAIN field :
                          earlier[c].state = "RevealedEmpty" => field[c] = earlier[c]

\* C10 witness: auto_step returned Boom after it revealed a neighbor, and a
\* second hidden mine, later in the order than the exploded one, is still hidden
C10_Witness ==
    /\ call.op = "auto_step"
    /\ ret = "Boom"
    /\ \E a, b, c \in Adjacent(field, Target) :
          /\ Precedes(a, b) /\ Precedes(b, c)
          /\ before.field[a].state = "HiddenEmpty" /\ field[a].state = "RevealedEmpty"
          /\ before.field[b] = HiddenMine /\ field[b] = ExplodedMine
          /\ before.field[c] = HiddenMine /\ field[c] = HiddenMine

(* ---------------------------------------------------------------------- *)
(* C11                                                                     *)
(* ---------------------------------------------------------------------- *)
Min(a, b) == IF a <= b THEN a ELSE b

\* C11: with_mines(count) on a fresh field, whatever the draws, does not fail,
\* stores mines() = min(count, width * height) and, when it returns, leaves
\* exactly that many cells HiddenMine and every other cell HiddenEmpty.
C11_WithMines ==
    call.op = "with_mines" =>
        /\ ret # "panic"
        /\ mines = Min(call.x, width * height)
        /\ ret = "unit" =>
              /\ Cardinality({c \in DOMAIN field : field[c] = HiddenMine}) = mines
              /\ \A c \in DOMAIN field :
                    field[c] # HiddenMine => field[c].state = "HiddenEmpty"

\* C11 witness: with_mines has returned from a request for more mines than the
\* field has cells
C11_Witness ==
    /\ call.op = "with_mines"
    /\ ret = "unit"
    /\ call.x > width * height
    /\ \A c \in DOMAIN field : field[c] = HiddenMine

(* ---------------------------------------------------------------------- *)
(* C12                                                                     *)
(* ---------------------------------------------------------------------- *)
\* C12: Minefield::new(w, h) yields width = max(w, 1), height = max(h, 1),
\* mines = 0 and a cell map with exactly one entry per coordinate of
\* [0, width) x [0, height), each HiddenEmpty with neighboring_mines = 0.
C12_New ==
    call.op = "new" =>
        /\ width = (IF call.x > 1 THEN call.x ELSE 1)
        /\ height = (IF call.y > 1 THEN call.y ELSE 1)
        /\ mines = 0
        /\ DOMAIN field =
              {c \in (0 .. MaxWidth + 1) \X (0 .. MaxHeight + 1) :
                  c[1] < width /\ c[2] < height}
        /\ \A c \in DOMAIN field :
              field[c].state = "HiddenEmpty" /\ field[c].neighboring_mines = 0

\* C12 witness: a field made by new(0, 2), its width coerced to 1
C12_Witness ==
    /\ call.op = "new"
    /\ call.x = 0
    /\ call.y = 2
    /\ Cardinality(DOMAIN field) = 2

(* ---------------------------------------------------------------------- *)
(* C13                                                                     *)
(* ---------------------------------------------------------------------- *)
\* the cell and the result that the flag table gives for a cell
FlagTable(s) ==
    IF s.state = "HiddenEmpty"
    THEN <<[state |-> "FlaggedEmpty", neighboring_mines |-> s.neighboring_mines], "Added">>
    ELSE IF s.state = "HiddenMine"
    THEN <<[state |-> "FlaggedMine"], "Added">>
    ELSE IF s.state = "FlaggedEmpty"
    THEN <<[state |-> "HiddenEmpty", neighboring_mines |-> s.neighboring_mines], "Removed">>
    ELSE IF s.state = "FlaggedMine"
    THEN <<[state |-> "HiddenMine"], "Removed">>
    ELSE <<s, "None">>

\* C13: toggle_flag(x,y) on an in-bounds cell follows the table (HiddenEmpty{n}
\* -> FlaggedEmpty{n} and HiddenMine -> FlaggedMine, Added; FlaggedEmpty{n} ->
\* HiddenEmpty{n} and FlaggedMine -> HiddenMine, Removed; RevealedEmpty and
\* ExplodedMine unchanged, None) and changes no other cell.
C13_ToggleFlag ==
    CalledOn("toggle_flag") =>
        /\ ret = FlagTable(before.field[Target])[2]
        /\ field = [before.field EXCEPT ![Target] = FlagTable(before.field[Target])[1]]

\* C13 witness: the flag came off a numbered empty cell, which has its count back
C13_Witness ==
    /\ CalledOn("toggle_flag")
    /\ before.field[Target].state = "FlaggedEmpty"
    /\ ret = "Removed"
    /\ field[Target].state = "HiddenEmpty"
    /\ field[Target].neighboring_mines > 0

(* ---------------------------------------------------------------------- *)
(* C14                                                                     *)
(* ---------------------------------------------------------------------- *)
\* C14: two consecutive toggle_flag calls on the same coordinate of a hidden
\* cell (HiddenEmpty or HiddenMine) return Added then Removed, and the second
\* restores the Minefield to what it was before the first.
C14_ToggleTwice ==
    [][(/\ CalledOn("toggle_flag")
        /\ before.field[Target].state \in {"HiddenEmpty", "HiddenMine"}
        /\ call'.op = "toggle_flag"
        /\ call'.x = call.x
        /\ call'.y = call.y) =>
           (/\ ret = "Added"
            /\ ret' = "Removed"
            /\ field' = before.field
            /\ mines' = before.mines
            /\ width' = before.width
            /\ height' = before.height)]_vars

\* C14 witness: the second of two calls, the first two of the game, took the flag
\* off a mine: the first had put it there
C14_Witness ==
    /\ nops = 2
    /\ CalledOn("toggle_flag")
    /\ ret = "Removed"
    /\ field[Target] = HiddenMine

(* ---------------------------------------------------------------------- *)
(* C15                                                                     *)
(* ---------------------------------------------------------------------- *)
\* C15: step and auto_step, floods included, never change a cell that is
\* FlaggedEmpty or FlaggedMine when they are called; a flagged cell changes only
\* through toggle_flag on its own coordinate.
C15_FlagsUntouched ==
    \A c \in DOMAIN before.field :
        (before.field[c].state \in FlagStates /\ field[c] # before.field[c]) =>
            (call.op = "toggle_flag" /\ Target = c)

\* C15 witness: a flood passed next to a flagged empty cell with no neighboring
\* mine and left it flagged
C15_Witness ==
    /\ CalledOn("step")
    /\ \E c, d \in DOMAIN field :
          /\ d \in Adjacent(field, c)
          /\ before.field[c] = HiddenEmpty(0)
          /\ field[c] = RevealedEmpty(0)
          /\ before.field[d] = FlaggedEmpty(0)
          /\ field[d] = FlaggedEmpty(0)

(* ---------------------------------------------------------------------- *)
(* C16                                                                     *)
(* ---------------------------------------------------------------------- *)
\* C16: a cell that is RevealedEmpty{n} or ExplodedMine is in exactly that state
\* (same n) after any step, toggle_flag or auto_step call, hence after any
\* sequence of them.
C16_Terminal ==
    call.op \in {"step", "toggle_flag", "auto_step"} =>
        \A c \in DOMAIN before.field :
            before.field[c].state \in {"RevealedEmpty", "ExplodedMine"} =>
                field[c] = before.field[c]

\* C16 witness: a call aimed at an exploded mine, on a field that also has a
\* revealed cell, after which both are as they were
C16_Witness ==
    /\ call.op \in {"step", "toggle_flag", "auto_step"}
    /\ InBounds
    /\ before.field[Target] = ExplodedMine
    /\ field[Target] = ExplodedMine
    /\ \E c \in DOMAIN field :
          before.field[c].state = "RevealedEmpty" /\ field[c] = before.field[c]

(* ---------------------------------------------------------------------- *)
(* C17                                                                     *)
(* ---------------------------------------------------------------------- *)
\* f with a mine put on t: t is HiddenMine, each Empty-family neighbor of t has
\* one more neighboring mine, every other cell is as in f
Mined(f, t) ==
    [c \in DOMAIN f |->
        IF c = t THEN [state |-> "HiddenMine"]
        ELSE IF c \in Adjacent(f, t) /\ f[c].state \in EmptyStates
             THEN [state |-> f[c].state, neighboring_mines |-> f[c].neighboring_mines + 1]
             ELSE f[c]]

\* C17: place_mine(x,y) on an in-bounds cell in an Empty-family state makes it
\* HiddenMine, adds exactly 1 to neighboring_mines of every in-bounds neighbor in
\* an Empty-family state and changes nothing else; on a cell that already holds
\* a mine it changes nothing.
C17_PlaceMine ==
    call.op = "place_mine" =>
        /\ ret = "unit"
        /\ field = (IF before.field[Target].state \in EmptyStates
                    THEN Mined(before.field, Target)
                    ELSE before.field)
        /\ mines = before.mines
        /\ width = before.width
        /\ height = before.height

\* C17 witness: a mine placed on an empty cell that had a revealed neighbor and
\* a flagged empty neighbor, both now counting one more, and a mined neighbor
C17_Witness ==
    /\ call.op = "place_mine"
    /\ before.field[Target].state \in EmptyStates
    /\ field[Target] = HiddenMine
    /\ \E a, b, c \in Adjacent(field, Target) :
          /\ before.field[a].state = "RevealedEmpty"
          /\ field[a] = RevealedEmpty(before.field[a].neighboring_mines + 1)
          /\ before.field[b].state = "FlaggedEmpty"
          /\ field[b] = FlaggedEmpty(before.field[b].neighboring_mines + 1)
          /\ before.field[c] = HiddenMine
          /\ field[c] = HiddenMine

\* C17 second case: a mine placed again on a cell that holds one
C17_WitnessRepeat ==
    /\ call.op = "place_mine"
    /\ before.field[Target] = HiddenMine
    /\ field = before.field

(* ---------------------------------------------------------------------- *)
(* C18                                                                     *)
(* ---------------------------------------------------------------------- *)
\* the last call was a step whose own spot step left RevealedEmpty{0}: the
\* test that starts the flood loop
FloodStarted ==
    /\ CalledOn("step")
    /\ Spot_step(before.field[Target]).spot = RevealedEmpty(0)

\* the field the flood loop starts from, and the run of the loop on it
FloodStart == [before.field EXCEPT ![Target] = RevealedEmpty(0)]
FloodRun == flood_reveal(FloodStart, <<Target>>)

\* C18: the flood loop of step terminates; a coordinate is pushed only when its
\* cell goes from HiddenEmpty to RevealedEmpty, so no cell is pushed twice, no
\* cell changes twice in one call, the loop runs at most once per cell, and the
\* assertion that the flood's cell step returns Phew never fails.
C18_FloodTerminates ==
    /\ pc # "panic" \/ call.op # "step"
    /\ FloodStarted =>
          /\ FloodRun.ok
          /\ ret # "panic"
          /\ field = FloodRun.field
          /\ \A i, j \in DOMAIN FloodRun.pushed :
                FloodRun.pushed[i] = FloodRun.pushed[j] => i = j
          /\ \A i \in DOMAIN FloodRun.pushed :
                /\ FloodRun.pushed[i] # Target
                /\ FloodStart[FloodRun.pushed[i]].state = "HiddenEmpty"
                /\ field[FloodRun.pushed[i]].state = "RevealedEmpty"
          /\ \A c \in DOMAIN field :
                /\ FloodRun.stepped[c] <= 1
                /\ FloodRun.stepped[c] = 1 =>
                      /\ FloodStart[c].state = "HiddenEmpty"
                      /\ field[c].state = "RevealedEmpty"
          /\ FloodRun.iterations = Len(FloodRun.pushed) + 1
          /\ FloodRun.iterations <= Cardinality(DOMAIN field)

\* C18 witness: a step returned Phew after a flood that pushed at least three
\* cells and ran its loop at least four times
C18_Witness ==
    /\ FloodStarted
    /\ ret = "Phew"
    /\ Len(FloodRun.pushed) >= 3
    /\ FloodRun.iterations >= 4

(* ---------------------------------------------------------------------- *)
(* C19                                                                     *)
(* ---------------------------------------------------------------------- *)
\* the cells of f that hold a mine
MineCells(f) == {c \in DOMAIN f : f[c].state \in MineStates}

\* C19: step, toggle_flag and auto_step never change which cells hold a mine,
\* never change the neighboring_mines of an Empty-family cell, and never change
\* width, height or mines.
C19_Frame ==
    call.op \in {"step", "toggle_flag", "auto_step"} =>
        /\ DOMAIN field = DOMAIN before.field
        /\ MineCells(field) = MineCells(before.field)
        /\ \A c \in DOMAIN before.field :
              before.field[c].state \in EmptyStates =>
                  /\ field[c].state \in EmptyStates
                  /\ field[c].neighboring_mines = before.field[c].neighboring_mines
        /\ width = before.width
        /\ height = before.height
        /\ mines = before.mines

\* C19 witness: an auto_step that revealed a numbered cell, exploded a mine and
\* left another cell hidden
C19_Witness ==
    /\ CalledOn("auto_step")
    /\ ret = "Boom"
    /\ \E a, b, c \in DOMAIN field :
          /\ before.field[a] = HiddenMine /\ field[a] = ExplodedMine
          /\ before.field[b].state = "HiddenEmpty" /\ field[b].state = "RevealedEmpty"
          /\ field[b].neighboring_mines > 0
          /\ field[c].state \in {"HiddenEmpty", "HiddenMine"}

(* ---------------------------------------------------------------------- *)
(* C20                                                                     *)
(* ---------------------------------------------------------------------- *)
\* the last call was auto_step on a RevealedEmpty{n} cell with exactly n flagged
\* neighbors, each of them a FlaggedMine
AutoStepOnTrueFlags ==
    /\ CalledOn("auto_step")
    /\ before.field[Target].state = "RevealedEmpty"
    /\ FlaggedAround(before.field, Target) = before.field[Target].neighboring_mines
    /\ \A d \in Adjacent(before.field, Target) :
          before.field[d].state \in FlagStates => before.field[d] = FlaggedMine

\* C20: with mines placed on a fresh field before play, auto_step on a
\* RevealedEmpty{n} cell whose flagged neighbors are exactly n FlaggedMine cells
\* returns Phew, explodes no mine, and leaves every neighbor of the cell
\* RevealedEmpty or FlaggedMine.
C20_AutoStepSafe ==
    AutoStepOnTrueFlags =>
        /\ ret = "Phew"
        /\ \A c \in DOMAIN field :
              field[c] = ExplodedMine => before.field[c] = ExplodedMine
        /\ \A d \in Adjacent(field, Target) :
              field[d].state = "RevealedEmpty" \/ field[d] = FlaggedMine

\* C20 witness: such an auto_step on a cell with a positive count revealed a
\* hidden neighbor, beside a flagged mine it left flagged
C20_Witness ==
    /\ AutoStepOnTrueFlags
    /\ before.field[Target].neighboring_mines > 0
    /\ \E d, e \in Adjacent(field, Target) :
          /\ before.field[d].state = "HiddenEmpty" /\ field[d].state = "RevealedEmpty"
          /\ before.field[e] = FlaggedMine /\ field[e] = FlaggedMine

(* ---------------------------------------------------------------------- *)
(* C21                                                                     *)
(* ---------------------------------------------------------------------- *)
\* the last call was a step or an auto_step, and it returned Boom
BoomReturned == call.op \in {"step", "auto_step"} /\ ret = "Boom"

\* some cell of the field is an exploded mine
Exploded == \E c \in DOMAIN field : field[c] = ExplodedMine

\* is_cleared is false: the last call, if it was is_cleared, returned false, and
\* a call now would
NotCleared ==
    /\ call.op = "is_cleared" => ret = FALSE
    /\ ~ is_cleared(field)

\* C21: once a step or auto_step call has returned Boom, is_cleared returns false
\* in every later state, whatever step, toggle_flag and auto_step calls follow.
\* Stated step by step: a call that returns Boom leaves an exploded mine, and
\* every step taken with an exploded mine on the field leaves one there; in
\* both cases is_cleared is false afterwards.
C21_LostStaysLost ==
    [][(BoomReturned' \/ Exploded) => (Exploded' /\ NotCleared')]_vars

\* C21 witness: is_cleared returned false on a field where a mine has exploded
\* and every other cell is a revealed empty cell or a flagged mine, after calls
\* that followed the explosion
C21_Witness ==
    /\ call.op = "is_cleared"
    /\ ret = FALSE
    /\ nops >= 4
    /\ \E c \in DOMAIN field :
          /\ field[c] = ExplodedMine
          /\ \A d \in DOMAIN field \ {c} : field[d].state \in {"RevealedEmpty", "FlaggedMine"}
          /\ \E d \in DOMAIN field : field[d] = FlaggedMine

(* ---------------------------------------------------------------------- *)
(* C22                                                                     *)
(* ---------------------------------------------------------------------- *)
\* the elements of a sequence
Range(q) == {q[i] : i \in DOMAIN q}

\* C22: during with_mines on a fresh field, for every count and every sequence
\* of draws: exactly min(count, width * height) draws are made, the pool is not
\* empty at any draw and loses exactly one index per draw, no index is drawn
\* twice, and every drawn index maps (x = index mod width, y = index div width)
\* to a coordinate of the grid, so the assertions of place_mine never fail.
C22_Draws ==
    call.op = "with_mines" =>
        /\ pc # "panic"
        /\ ret # "panic"
        /\ Len(drawn) + todo = Min(call.x, width * height)
        /\ ret = "unit" => todo = 0
        /\ pc = "with_mines" =>
              /\ Len(spots_remaining) = width * height - Len(drawn)
              /\ todo > 0 => Len(spots_remaining) > 0
              /\ Range(spots_remaining) \cup Range(drawn) = 0 .. width * height - 1
              /\ Range(spots_remaining) \cap Range(drawn) = {}
        /\ \A i, j \in DOMAIN drawn : drawn[i] = drawn[j] => i = j
        /\ \A i \in DOMAIN drawn :
              /\ drawn[i] % width < width
              /\ drawn[i] \div width < height
              /\ field[<<drawn[i] % width, drawn[i] \div width>>] = HiddenMine

\* C22 witness: with_mines returned after two draws on a grid at least 2x2; the
\* first draw took an index from inside the pool, so the last index was moved
\* into its place, and an index off the first row and the first column was drawn
C22_Witness ==
    /\ call.op = "with_mines"
    /\ ret = "unit"
    /\ width >= 2
    /\ height >= 2
    /\ Len(drawn) = 2
    /\ drawn[1] # width * height - 1
    /\ \E i \in DOMAIN drawn : drawn[i] % width >= 1 /\ drawn[i] \div width >= 1

\* C22 second case: the count was limited to the number of cells
C22_WitnessLimited ==
    /\ call.op = "with_mines"
    /\ ret = "unit"
    /\ call.x > width * height
    /\ Len(drawn) = width * height

(* ---------------------------------------------------------------------- *)
(* C23                                                                     *)
(* ---------------------------------------------------------------------- *)
\* the cells (i, j) of the grid with |i - x| <= 1, |j - y| <= 1, other than (x, y)
Block(x, y) ==
    {c \in (0 .. x + 1) \X (0 .. y + 1) :
        /\ Abs(c[1] - x) <= 1
        /\ Abs(c[2] - y) <= 1
        /\ c # <<x, y>>
        /\ c[1] < width
        /\ c[2] < height}

\* how many of the two coordinates lie on the border of the grid
OnBorder(x, y) ==
    (IF x = 0 \/ x = width - 1 THEN 1 ELSE 0) + (IF y = 0 \/ y = height - 1 THEN 1 ELSE 0)

\* C23: on every grid, 1-wide and 1-high ones included, and for every in-bounds
\* (x, y), neighbors_coords(x, y) yields, each exactly once, precisely the cells
\* (i, j) with |i - x| <= 1, |j - y| <= 1, (i, j) # (x, y), i < width and
\* j < height: 3 cells at a corner, 5 on an edge and 8 in the interior of a grid
\* at least 3x3; the neighbor relation is symmetric.
C23_NeighborsCoords ==
    call.op = "neighbors_coords" =>
        /\ \A i, j \in DOMAIN ret : ret[i] = ret[j] => i = j
        /\ Range(ret) = Block(call.x, call.y)
        /\ (width >= 3 /\ height >= 3) =>
              Len(ret) = (CASE OnBorder(call.x, call.y) = 2 -> 3
                            [] OnBorder(call.x, call.y) = 1 -> 5
                            [] OTHER -> 8)
        /\ \A d \in Range(ret) : Target \in Range(neighbors_coords(d[1], d[2]))

\* C23 witness: the eight neighbors of an interior cell
C23_Witness ==
    /\ call.op = "neighbors_coords"
    /\ call.x > 0 /\ call.x < width - 1
    /\ call.y > 0 /\ call.y < height - 1
    /\ Len(ret) = 8

\* C23 other cases: a corner and an edge of a grid at least 3x3, and a cell with
\* a single neighbor on a 1-high grid
C23_WitnessCorner ==
    /\ call.op = "neighbors_coords"
    /\ width >= 3 /\ height >= 3
    /\ Target = <<width - 1, height - 1>>
    /\ Len(ret) = 3

C23_WitnessEdge ==
    /\ call.op = "neighbors_coords"
    /\ width >= 3 /\ height >= 3
    /\ call.x = 0 /\ call.y > 0 /\ call.y < height - 1
    /\ Len(ret) = 5

C23_WitnessLine ==
    /\ call.op = "neighbors_coords"
    /\ height = 1 /\ width >= 2
    /\ ret = <<<<1, 0>>>>

====
